---- MODULE Spec2Model ----
(***************************************************************************)
(* Model of the SalesForecasting React component                           *)
(* (src/src/SalesForecasting.js; src/unnamed/part_000 is an earlier        *)
(* version with the same pipeline logic).                                  *)
(*                                                                         *)
(* JavaScript values of mixed type are modelled by tagged records so that  *)
(* null, undefined and NaN stay distinct from ordinary values.             *)
(* JavaScript runs handlers to completion: the variable `running` names    *)
(* the invocation that holds the thread; other invocations may only move   *)
(* while it is 0.  An invocation gives the thread up at `await model.fit`. *)
(* The `data` prop is chosen at Init and stays fixed.  TensorFlow.js is an  *)
(* outside library: model.fit may resolve or reject, model.predict and     *)
(* dataSync may return or throw, and a predicted number is kept symbolic   *)
(* as (model, input).  Product descriptions are strings.                   *)
(***************************************************************************)
EXTENDS Integers, Sequences, FiniteSets, TLC

\* ------------------------------------------------------------------ bounds
MaxRecords == 3       \* longest record sequence handed to the encoder alone
MaxRows == 2          \* longest record sequence handed to the whole pipeline
MaxRuns == 1          \* button clicks when one invocation is followed alone
MaxClicks == 2        \* button clicks when invocations may overlap

\* ------------------------------------------------------- input domains
DateStrings == {"2024-01-15", "2024-03-02", "bad-date"}
ProductStrings == {"A", "10", "2"}
QuantityStrings == {"5", "3", "not-a-number"}

Records == [sales_date : DateStrings, product_description : ProductStrings, quantity_sold : QuantityStrings]

PipelineRecords == [sales_date : {"2024-01-15", "bad-date"}, product_description : ProductStrings, quantity_sold : {"5"}]

OverlapRecords == [sales_date : {"2024-01-15", "bad-date"}, product_description : {"A", "10"}, quantity_sold : {"5"}]

SeqsUpTo(S, n) == UNION {[1..k -> S] : k \in 0..n}

\* the `data` prop: undefined, or an array of records
UndefinedData == [defined |-> FALSE, rows |-> <<>>]

DataValues(S, n) == {UndefinedData} \cup {[defined |-> TRUE, rows |-> r] : r \in SeqsUpTo(S, n)}

\* ------------------------------------------------- JavaScript built-ins
NaN == [nan |-> TRUE, val |-> 0]

Num(n) == [nan |-> FALSE, val |-> n]

\* new Date(s): an invalid date has a NaN time value
NewDate(s) ==
  CASE s = "2024-01-15" -> [nan |-> FALSE, year |-> 2024, month0 |-> 0, day |-> 15]
    [] s = "2024-03-02" -> [nan |-> FALSE, year |-> 2024, month0 |-> 2, day |-> 2]
    [] OTHER -> [nan |-> TRUE, year |-> 0, month0 |-> 0, day |-> 0]

\* Date.prototype.getMonth: zero-based month
getMonth(d) == d.month0

\* parseFloat(s): the leading number of s, NaN when there is none
parseFloat(s) ==
  CASE s = "5" -> Num(5)
    [] s = "3" -> Num(3)
    [] s = "0" -> Num(0)
    [] OTHER -> NaN

\* x || 0 on a number: NaN and 0 are falsy
OrZero(x) == IF x.nan \/ x.val = 0 THEN 0 ELSE x.val

\* canonical array-index value of a property key, -1 when the key is not one
ArrayIndexOf(p) ==
  CASE p = "10" -> 10
    [] p = "2" -> 2
    [] OTHER -> -1

IsArrayIndex(p) == ArrayIndexOf(p) >= 0

RECURSIVE Dedup(_, _)
Dedup(s, seen) ==
  IF s = <<>> THEN <<>>
  ELSE IF Head(s) \in seen THEN Dedup(Tail(s), seen)
  ELSE <<Head(s)>> \o Dedup(Tail(s), seen \cup {Head(s)})

\* [...new Set(arr)]: distinct elements in first-insertion order
SetSpread(arr) == Dedup(arr, {})

Range(s) == {s[i] : i \in DOMAIN s}

RECURSIVE SortByIndex(_)
SortByIndex(S) ==
  IF S = {} THEN <<>>
  ELSE LET m == CHOOSE x \in S : \A y \in S : ArrayIndexOf(x) <= ArrayIndexOf(y)
       IN <<m>> \o SortByIndex(S \ {m})

\* Object.keys of an object whose properties were created in the order
\* `created`: array-index keys ascending, then the other keys in creation order
ObjectKeys(created) ==
  SortByIndex({p \in Range(created) : IsArrayIndex(p)}) \o SelectSeq(created, LAMBDA p : ~IsArrayIndex(p))

\* Array.prototype.map with the element only
MapSeq(s, F(_)) == [i \in DOMAIN s |-> F(s[i])]

\* Array.prototype.filter with the (element, index) callback; indices are
\* the 1-based positions of the model
Filter(s, P(_, _)) ==
  LET keep == {i \in DOMAIN s : P(s[i], i)}
  IN [j \in 1..Cardinality(keep) |-> s[CHOOSE i \in keep : Cardinality({k \in keep : k <= i}) = j]]

\* tagged values held by the `inputs` array
Null == [tag |-> "null", v |-> <<>>]

Undefined == [tag |-> "undefined", v |-> <<>>]

Pair(m, idx) == [tag |-> "pair", v |-> <<m, idx>>]

\* arr[i] of a JavaScript array: undefined past the end
At(arr, i) == IF i \in DOMAIN arr THEN arr[i] ELSE Undefined

\* the month sentinel of a record whose date does not parse (null)
NullMonth == 0

\* ------------------------------------------------------- preprocessData
\* the returned triple; `products` is the order in which the properties of
\* productMapping were created (an object remembers it)
EmptyResult == [inputs |-> <<>>, outputs |-> <<>>, productMapping |-> <<>>, products |-> <<>>]

salesDatesOf(rows) ==
  MapSeq(rows, LAMBDA row : LET date == NewDate(row.sales_date) IN IF ~date.nan THEN getMonth(date) + 1 ELSE NullMonth)

\* variant: the product list is built from the records with a valid date only
productsOfValidRows(rows) ==
  SetSpread(MapSeq(SelectSeq(rows, LAMBDA row : ~NewDate(row.sales_date).nan), LAMBDA row : row.product_description))

productsOf(rows) == SetSpread(MapSeq(rows, LAMBDA row : row.product_description))

\* Object.fromEntries(products.map((p, i) => [p, i])), zero-based i
productMappingOf(products) == [p \in Range(products) |-> (CHOOSE i \in DOMAIN products : products[i] = p) - 1]

quantitiesOf(rows) == MapSeq(rows, LAMBDA row : OrZero(parseFloat(row.quantity_sold)))

inputsOf(rows, salesDates, productMapping) ==
  LET mapped == [i \in DOMAIN rows |->
                   IF salesDates[i] # NullMonth /\ rows[i].product_description \in DOMAIN productMapping
                   THEN Pair(salesDates[i], productMapping[rows[i].product_description])
                   ELSE Null]
  IN Filter(mapped, LAMBDA input, i : input # Null)

\* quantities.filter((q, i) => inputs[i] !== null), inputs already filtered
outputsOf(quantities, inputs) == Filter(quantities, LAMBDA q, i : At(inputs, i) # Null)

preprocessData(d) ==
  IF ~d.defined \/ Len(d.rows) = 0 THEN EmptyResult
  ELSE LET salesDates == salesDatesOf(d.rows)
           products == productsOf(d.rows)
           productMapping == productMappingOf(products)
           quantities == quantitiesOf(d.rows)
           inputs == inputsOf(d.rows, salesDates, productMapping)
           outputs == outputsOf(quantities, inputs)
       IN [inputs |-> inputs, outputs |-> outputs, productMapping |-> productMapping, products |-> products]

\* ------------------------------------------------------------- the state
VARIABLES
  data,           \* the `data` prop of the component
  encoded,        \* result of a stand-alone preprocessData() call
  chartData,      \* the useState cell
  frames,         \* locals of every trainAndPredict invocation
  running,        \* invocation holding the JavaScript thread, 0 when none
  clicks,         \* button clicks so far
  modelsBuilt,    \* tf.sequential() models created so far
  liveTraining,   \* live tensors created for training (xs, ys)
  liveInference   \* live tensors created by inference calls

vars == <<data, encoded, chartData, frames, running, clicks, modelsBuilt, liveTraining, liveInference>>

Invocations == 1..MaxClicks

\* useState(null)
NullChart == [labels |-> <<>>, datasets |-> <<>>]

NotEncoded == [called |-> FALSE, result |-> EmptyResult]

IdleFrame ==
  [pc |-> "idle", inputs |-> <<>>, outputs |-> <<>>, productMapping |-> <<>>, products |-> <<>>,
   xs |-> <<>>, ys |-> <<>>, model |-> 0, predictions |-> <<>>, i |-> 0, k |-> 0,
   fitCalls |-> 0, predictCalls |-> 0, visualizeCalls |-> 0, threw |-> "none"]

\* ----------------------------------------------------- trainAndPredict
\* variant: the guard halts only when both lists are empty
invalidDataBoth(inputs, outputs) == Len(inputs) = 0 /\ Len(outputs) = 0

\* the guard before training
invalidData(inputs, outputs) == Len(inputs) = 0 \/ Len(outputs) = 0

\* variant: one model object shared by all invocations
buildModelShared(built) == 1

\* tf.sequential(): a fresh model, named by its creation number
buildModel(built) == built + 1

\* model.predict(tf.tensor2d([x])).dataSync()[0]: the value the trained
\* model m gives for the 1x2 input x, kept symbolic
predictedValue(m, x) == [model |-> m, input |-> x]

\* variant: the loop stops one month early
loopContinuesBelow(i) == i < 6

\* for (let i = 1; i <= 6; i++)
loopContinues(i) == i <= 6

\* `Month ${n}`
MonthLabel(n) ==
  CASE n = 1 -> "Month 1" [] n = 2 -> "Month 2" [] n = 3 -> "Month 3"
    [] n = 4 -> "Month 4" [] n = 5 -> "Month 5" [] OTHER -> "Month 6"

\* the object handed to setChartData (styling fields left out)
visualizeResults(predictions) ==
  LET products == SetSpread(MapSeq(predictions, LAMBDA p : p.product))
      datasets == [n \in DOMAIN products |->
                     [label |-> products[n],
                      data |-> MapSeq(SelectSeq(predictions, LAMBDA p : p.product = products[n]), LAMBDA p : p.predicted)]]
  IN [labels |-> [n \in 1..6 |-> MonthLabel(n)], datasets |-> datasets]

\* button click: the synchronous part of trainAndPredict up to `await model.fit`
Click(limit) ==
  /\ running = 0
  /\ clicks < limit
  /\ LET inv == clicks + 1
         r == preprocessData(data)
     IN IF invalidData(r.inputs, r.outputs)
        THEN /\ frames' = [frames EXCEPT ![inv] = [@ EXCEPT !.pc = "returned", !.inputs = r.inputs, !.outputs = r.outputs,
                                                            !.productMapping = r.productMapping, !.products = r.products]]
             /\ UNCHANGED <<modelsBuilt, liveTraining>>
        ELSE /\ frames' = [frames EXCEPT ![inv] = [@ EXCEPT !.pc = "fit", !.inputs = r.inputs, !.outputs = r.outputs,
                                                            !.productMapping = r.productMapping, !.products = r.products,
                                                            !.xs = r.inputs, !.ys = r.outputs,
                                                            !.model = buildModel(modelsBuilt), !.fitCalls = 1]]
             /\ modelsBuilt' = modelsBuilt + 1
             /\ liveTraining' = liveTraining + 2
  /\ clicks' = clicks + 1
  /\ UNCHANGED <<data, encoded, chartData, running, liveInference>>

\* the promise of model.fit resolves: the invocation takes the thread again
FitResolve(inv) ==
  /\ running = 0
  /\ frames[inv].pc = "fit"
  /\ frames' = [frames EXCEPT ![inv] = [@ EXCEPT !.pc = "loop", !.i = 1, !.k = 1]]
  /\ running' = inv
  /\ UNCHANGED <<data, encoded, chartData, clicks, modelsBuilt, liveTraining, liveInference>>

\* variant: the exception is caught and the points collected so far are charted
ThrowCaught(inv, at) ==
  /\ frames' = [frames EXCEPT ![inv] = [@ EXCEPT !.pc = "done", !.threw = at, !.visualizeCalls = @ + 1,
                                                  !.predictCalls = IF at = "fit" THEN @ ELSE @ + 1]]
  /\ running' = 0
  /\ chartData' = visualizeResults(frames[inv].predictions)

\* an exception leaves trainAndPredict: its promise is rejected, nothing below runs
Throw(inv, at) ==
  /\ frames' = [frames EXCEPT ![inv] = [@ EXCEPT !.pc = "rejected", !.threw = at,
                                                  !.predictCalls = IF at = "fit" THEN @ ELSE @ + 1]]
  /\ running' = 0
  /\ UNCHANGED chartData

\* the promise of model.fit rejects
FitReject(inv) ==
  /\ running = 0
  /\ frames[inv].pc = "fit"
  /\ Throw(inv, "fit")
  /\ UNCHANGED <<data, encoded, clicks, modelsBuilt, liveTraining, liveInference>>

\* one run of the forEach callback that returns normally
IterateOk(inv) ==
  /\ running = inv
  /\ frames[inv].pc = "loop"
  /\ loopContinues(frames[inv].i)
  /\ LET f == frames[inv]
         keys == ObjectKeys(f.products)
         product == keys[f.k]
         x == <<f.i, f.productMapping[product]>>
         point == [product |-> product, sales_date |-> f.i, predicted |-> predictedValue(f.model, x)]
         last == f.k = Len(keys)
     IN frames' = [frames EXCEPT ![inv] = [@ EXCEPT !.predictions = Append(@, point), !.predictCalls = @ + 1,
                                                     !.i = IF last THEN @ + 1 ELSE @,
                                                     !.k = IF last THEN 1 ELSE @ + 1]]
  \* tf.tensor2d +1, model.predict +1, predictionTensor.dispose() -1
  /\ liveInference' = liveInference + 1 + 1 - 1
  /\ UNCHANGED <<data, encoded, chartData, running, clicks, modelsBuilt, liveTraining>>

\* one run of the forEach callback in which model.predict or dataSync throws
IterateThrows(inv) ==
  /\ running = inv
  /\ frames[inv].pc = "loop"
  /\ loopContinues(frames[inv].i)
  /\ \E at \in {"predict", "dataSync"} :
       \* the input tensor exists in both cases, the output tensor once predict returned
       /\ liveInference' = liveInference + (IF at = "predict" THEN 1 ELSE 2)
       /\ Throw(inv, at)
  /\ UNCHANGED <<data, encoded, clicks, modelsBuilt, liveTraining>>

\* the loop is over: visualizeResults(predictions), then the function returns
Visualize(inv) ==
  /\ running = inv
  /\ frames[inv].pc = "loop"
  /\ ~loopContinues(frames[inv].i)
  /\ chartData' = visualizeResults(frames[inv].predictions)
  /\ frames' = [frames EXCEPT ![inv] = [@ EXCEPT !.pc = "done", !.visualizeCalls = @ + 1]]
  /\ running' = 0
  /\ UNCHANGED <<data, encoded, clicks, modelsBuilt, liveTraining, liveInference>>

Init ==
  /\ data \in DataValues(PipelineRecords, MaxRows)
  /\ encoded = NotEncoded
  /\ chartData = NullChart
  /\ frames = [inv \in Invocations |-> IdleFrame]
  /\ running = 0
  /\ clicks = 0
  /\ modelsBuilt = 0
  /\ liveTraining = 0
  /\ liveInference = 0

Next ==
  \/ Click(MaxRuns)
  \/ \E inv \in Invocations : FitResolve(inv)
  \/ \E inv \in Invocations : FitReject(inv)
  \/ \E inv \in Invocations : IterateOk(inv)
  \/ \E inv \in Invocations : IterateThrows(inv)
  \/ \E inv \in Invocations : Visualize(inv)

Spec == Init /\ [][Next]_vars

\* ------------------------------- clicks while an earlier fit is pending
InitOverlap ==
  /\ data \in DataValues(OverlapRecords, MaxRows)
  /\ encoded = NotEncoded
  /\ chartData = NullChart
  /\ frames = [inv \in Invocations |-> IdleFrame]
  /\ running = 0
  /\ clicks = 0
  /\ modelsBuilt = 0
  /\ liveTraining = 0
  /\ liveInference = 0

NextOverlap ==
  \/ Click(MaxClicks)
  \/ \E inv \in Invocations : FitResolve(inv)
  \/ \E inv \in Invocations : FitReject(inv)
  \/ \E inv \in Invocations : IterateOk(inv)
  \/ \E inv \in Invocations : IterateThrows(inv)
  \/ \E inv \in Invocations : Visualize(inv)

SpecOverlap == InitOverlap /\ [][NextOverlap]_vars

\* ------------------------------------------- the encoder called on its own
Encode ==
  /\ ~encoded.called
  /\ encoded' = [called |-> TRUE, result |-> preprocessData(data)]
  /\ UNCHANGED <<data, chartData, frames, running, clicks, modelsBuilt, liveTraining, liveInference>>

InitPre ==
  /\ data \in DataValues(Records, MaxRecords)
  /\ encoded = NotEncoded
  /\ chartData = NullChart
  /\ frames = [inv \in Invocations |-> IdleFrame]
  /\ running = 0
  /\ clicks = 0
  /\ modelsBuilt = 0
  /\ liveTraining = 0
  /\ liveInference = 0

NextPre == Encode

SpecPre == InitPre /\ [][NextPre]_vars

\* =================================================== properties: encoder
Rows == data.rows

Descriptions == {Rows[i].product_description : i \in DOMAIN Rows}

FirstPos(p) == CHOOSE i \in DOMAIN Rows : Rows[i].product_description = p /\ \A j \in 1..(i - 1) : Rows[j].product_description # p

\* zero-based rank of p among the descriptions by first appearance
FirstSeenIndex(p) == Cardinality({q \in Descriptions : FirstPos(q) < FirstPos(p)})

DateParses(i) == ~NewDate(Rows[i].sales_date).nan

MonthOf(i) == NewDate(Rows[i].sales_date).month0 + 1

ParsedQuantity(i) == LET q == parseFloat(Rows[i].quantity_sold) IN IF q.nan THEN 0 ELSE q.val

\* records the inclusion rule keeps, and the position each gets in the output
IncludedRows == {i \in DOMAIN Rows : DateParses(i) /\ Rows[i].product_description \in DOMAIN encoded.result.productMapping}

PositionOf(i) == Cardinality({j \in IncludedRows : j <= i})

RowAt(pos) == CHOOSE i \in IncludedRows : PositionOf(i) = pos

\* C1: the feature list and the target list returned by preprocessData have
\* the same length, for any input record sequence
C1_SameLength == encoded.called => Len(encoded.result.inputs) = Len(encoded.result.outputs)

\* C2: the features are, in input order, the (month, productIndex) pairs of
\* exactly the included records and the targets are, in the same order, the
\* quantities of exactly those records
C2_InclusionRule ==
  (encoded.called /\ data.defined /\ Len(Rows) > 0) =>
    /\ encoded.result.inputs = [pos \in 1..Cardinality(IncludedRows) |->
                                  Pair(MonthOf(RowAt(pos)), encoded.result.productMapping[Rows[RowAt(pos)].product_description])]
    /\ encoded.result.outputs = [pos \in 1..Cardinality(IncludedRows) |-> ParsedQuantity(RowAt(pos))]

\* C8: ProductIndex covers every distinct description of the input (also of
\* records with a bad date), is one-to-one onto 0..n-1, and numbers the
\* descriptions in order of first appearance
C8_ProductIndexBijection ==
  (encoded.called /\ data.defined /\ Len(Rows) > 0) =>
    LET m == encoded.result.productMapping
    IN /\ DOMAIN m = Descriptions
       /\ {m[p] : p \in DOMAIN m} = 0..(Cardinality(Descriptions) - 1)
       /\ \A p, q \in DOMAIN m : (m[p] = m[q]) => (p = q)
       /\ \A p, q \in DOMAIN m : (m[p] < m[q]) <=> (FirstPos(p) < FirstPos(q))
       /\ \A i, j \in DOMAIN Rows : Rows[i].product_description = Rows[j].product_description
                                      => m[Rows[i].product_description] = m[Rows[j].product_description]

\* a product first seen on a bad-date record, a repeated description, and
\* an array-index-like description, all indexed
C8_Witness ==
  /\ encoded.called
  /\ data.defined
  /\ Cardinality(DOMAIN encoded.result.productMapping) >= 2
  /\ \E i \in DOMAIN Rows : /\ ~DateParses(i)
                            /\ FirstPos(Rows[i].product_description) = i
                            /\ \E j \in DOMAIN Rows : j > i /\ Rows[j].product_description = Rows[i].product_description
  /\ \E p \in DOMAIN encoded.result.productMapping : IsArrayIndex(p) /\ encoded.result.productMapping[p] = 0

\* C9: a record whose date parses contributes a feature, and the target at
\* that feature's position is its parsed quantity, 0 when the quantity does
\* not parse
C9_QuantityCoercion ==
  (encoded.called /\ data.defined) =>
    \A i \in DOMAIN Rows : DateParses(i) =>
      /\ PositionOf(i) \in DOMAIN encoded.result.inputs
      /\ PositionOf(i) \in DOMAIN encoded.result.outputs
      /\ encoded.result.outputs[PositionOf(i)] = ParsedQuantity(i)

\* ================================================== properties: pipeline
Started(inv) == frames[inv].pc # "idle"

NoRecords == ~data.defined \/ Len(Rows) = 0

AllExcluded == data.defined /\ Len(Rows) > 0 /\ \A i \in DOMAIN Rows : ~DateParses(i)

\* descriptions in order of first appearance
FirstSeenOrder == [n \in 1..Cardinality(Descriptions) |-> CHOOSE p \in Descriptions : FirstSeenIndex(p) = n - 1]

\* C3: the forecast is ordered by month 1..6 and, within a month, by product
\* in first-seen order
C3_ForecastOrder ==
  \A inv \in Invocations : frames[inv].pc = "done" =>
    LET n == Cardinality(Descriptions)
        pr == frames[inv].predictions
    IN /\ Len(pr) = 6 * n
       /\ \A m \in 1..6 : \A j \in 1..n :
            /\ pr[(m - 1) * n + j].sales_date = m
            /\ pr[(m - 1) * n + j].product = FirstSeenOrder[j]

\* C4: a completed forecast has 6 x |distinct products| points, and every
\* (month, product) combination appears exactly once, predicted from the
\* feature (month, productIndex[product])
C4_ForecastShape ==
  \A inv \in Invocations : frames[inv].pc = "done" =>
    LET pr == frames[inv].predictions
    IN /\ Len(pr) = 6 * Cardinality(Descriptions)
       /\ \A n \in DOMAIN pr : pr[n].sales_date \in 1..6 /\ pr[n].product \in Descriptions
       /\ \A m \in 1..6 : \A p \in Descriptions :
            LET at == {n \in DOMAIN pr : pr[n].product = p /\ pr[n].sales_date = m}
            IN /\ Cardinality(at) = 1
               /\ \A n \in at : pr[n].predicted = predictedValue(frames[inv].model, <<m, FirstSeenIndex(p)>>)

\* a finished forecast over two products, an array-index-like one included
C4_Witness ==
  \E inv \in Invocations :
    /\ frames[inv].pc = "done"
    /\ Cardinality(Descriptions) = 2
    /\ \E p \in Descriptions : IsArrayIndex(p)
    /\ \E p \in Descriptions : ~IsArrayIndex(p)
    /\ \E i \in DOMAIN Rows : ~DateParses(i)
    /\ Len(frames[inv].predictions) = 12

\* C5: the trainer never gets empty features or targets; with no records the
\* encoder returns three empty results, with every record excluded the
\* features are empty, and in both cases the invocation returns before
\* model.fit without training, inference or a chart update
C5_NoTrainingOnEmpty ==
  \A inv \in Invocations :
    /\ frames[inv].fitCalls > 0 => (Len(frames[inv].xs) > 0 /\ Len(frames[inv].ys) > 0)
    /\ (Started(inv) /\ NoRecords) =>
         (frames[inv].inputs = <<>> /\ frames[inv].outputs = <<>> /\ DOMAIN frames[inv].productMapping = {})
    /\ (Started(inv) /\ AllExcluded) => frames[inv].inputs = <<>>
    /\ (Started(inv) /\ (NoRecords \/ AllExcluded)) =>
         /\ frames[inv].pc = "returned"
         /\ frames[inv].fitCalls = 0
         /\ frames[inv].predictCalls = 0
         /\ frames[inv].visualizeCalls = 0
         /\ frames[inv].model = 0
         /\ chartData = NullChart
         /\ liveTraining = 0

\* an invocation that returned early although the targets were not empty
C5_Witness ==
  \E inv \in Invocations :
    /\ frames[inv].pc = "returned"
    /\ AllExcluded
    /\ Len(frames[inv].outputs) > 0

\* C6: every buffer an inference call allocates is released before the
\* iteration ends, on every exit path: an iteration leaves the number of
\* live inference buffers as it found it
C6_NoInferenceLeak ==
  [][(\E inv \in Invocations : IterateOk(inv) \/ IterateThrows(inv)) => liveInference' = liveInference]_vars

\* the models whose predictions appear in a chart
ChartModels(chart) == UNION {{chart.datasets[d].data[n].model : n \in DOMAIN chart.datasets[d].data} : d \in DOMAIN chart.datasets}

\* C7: when model.fit, model.predict or dataSync fails, the invocation ends
\* rejected, visualizeResults is not called, chartData is left as it was and
\* never shows a point of that invocation
C7_FailFast ==
  /\ [](\A inv \in Invocations : frames[inv].threw # "none" =>
          /\ frames[inv].pc = "rejected"
          /\ frames[inv].visualizeCalls = 0
          /\ frames[inv].model \notin ChartModels(chartData))
  /\ [][\A inv \in Invocations : (frames[inv].threw = "none" /\ frames'[inv].threw # "none") => chartData' = chartData]_vars
  /\ [][\A inv \in Invocations : frames[inv].threw # "none" => frames'[inv] = frames[inv]]_vars

\* a forward pass failed after some points were collected, while the chart
\* of an earlier invocation is on display
C7_Witness ==
  \E inv \in Invocations :
    /\ frames[inv].threw = "dataSync"
    /\ Len(frames[inv].predictions) > 0
    /\ chartData # NullChart

\* chart is the complete forecast of invocation inv
IsCompleteChartOf(chart, inv) ==
  /\ chart.labels = <<"Month 1", "Month 2", "Month 3", "Month 4", "Month 5", "Month 6">>
  /\ Len(chart.datasets) = Cardinality(Descriptions)
  /\ {chart.datasets[d].label : d \in DOMAIN chart.datasets} = Descriptions
  /\ \A d \in DOMAIN chart.datasets :
       /\ Len(chart.datasets[d].data) = 6
       /\ \A m \in 1..6 : chart.datasets[d].data[m] = predictedValue(frames[inv].model, <<m, FirstSeenIndex(chart.datasets[d].label)>>)

\* C10: overlapping invocations have their own model and predictions list;
\* chartData is always null or the complete forecast of one invocation, and
\* an invocation that finishes sets the chart to its own forecast
C10_NoMixing ==
  /\ [](/\ \A a, b \in Invocations : (a # b /\ frames[a].model # 0 /\ frames[b].model # 0) => frames[a].model # frames[b].model
        /\ \A inv \in Invocations : \A n \in DOMAIN frames[inv].predictions :
             frames[inv].predictions[n].predicted.model = frames[inv].model
        /\ (chartData = NullChart \/ \E inv \in Invocations : frames[inv].pc = "done" /\ IsCompleteChartOf(chartData, inv)))
  /\ [][\A inv \in Invocations : (frames[inv].pc # "done" /\ frames'[inv].pc = "done") => IsCompleteChartOf(chartData', inv)]_vars

\* the second click came while the first invocation was suspended in fit,
\* the second finished first, and the chart shows the first one's forecast
C10_Witness ==
  /\ frames[1].pc = "done"
  /\ frames[2].pc = "done"
  /\ Len(frames[2].predictions) > 0
  /\ IsCompleteChartOf(chartData, 1)
  /\ ~IsCompleteChartOf(chartData, 2)

====
